---- MODULE Spec2Model ----
(***************************************************************************)
(* Model of assets/site.js: the language toggle of the portfolio page.     *)
(*                                                                         *)
(* The script owns no objects of its own; its state is the part of the     *)
(* browser it reads and writes: the inline display of the elements matched *)
(* by '.lang-fr' and '.lang-en', the lang attribute of the root element,   *)
(* the text of the elements 'year' and 'year-fr', and the localStorage key *)
(* 'portfolio_lang'.  The authored document (what the HTML says before any *)
(* script runs) is an input: it is drawn in Init and never changes.        *)
(***************************************************************************)
EXTENDS Integers, Sequences, FiniteSets

VARIABLES
    page,      \* the authored document: classes, inline display, lang, ids present
    pc,        \* "load": the script has not run yet on this page; "ready": init() returned
    display,   \* el.style.display of every element
    lang,      \* document.documentElement.lang
    text,      \* textContent of the elements 'year' and 'year-fr'
    storage,   \* localStorage['portfolio_lang'] (NoItem when the key is absent)
    uncaught,  \* an exception left the last handler of the script
    h          \* what the last step was and what it read (observation only)

vars == <<page, pc, display, lang, text, storage, uncaught, h>>

----------------------------------------------------------------------------
(* Bounds and value sets *)

NumElems == 2
MaxYear == 2027

Elems == 1..NumElems
Years == 2026..MaxYear

Classes == {"lang-fr", "lang-en"}
Displays == {"", "none"}
YearIds == {"year", "year-fr"}
NoItem == "<null>"
StoredValues == {NoItem, "en", "fr", "FR"}
\* lang as authored in the HTML, and lang as anything may set it
AuthoredLangs == {"en", "fr"}
LangAttrs == {"en", "fr", "fr-CA"}
None == "<none>"

Pages ==
    [classes : [Elems -> SUBSET Classes],
     display : [Elems -> Displays],
     lang    : AuthoredLangs,
     ids     : SUBSET YearIds]

----------------------------------------------------------------------------
(* Pure parts of the script *)

\* document.querySelectorAll('.' + cls)
all(cls) == {e \in Elems : cls \in page.classes[e]}

\* String(n) for a non-negative integer: its decimal digits
RECURSIVE Digits(_)
Digits(n) == IF n < 10 THEN <<n>> ELSE Append(Digits(n \div 10), n % 10)

String(n) == Digits(n)

\* Variant: the French pass always shows its elements.
frPass_alwaysShown(d, showFR) ==
    [e \in Elems |-> IF e \in all("lang-fr") THEN "" ELSE d[e]]

\* fr.forEach(el => el.style.display = showFR ? '' : 'none')
frPass(d, showFR) ==
    [e \in Elems |-> IF e \in all("lang-fr")
                     THEN (IF showFR THEN "" ELSE "none")
                     ELSE d[e]]

\* Variant: the English pass is missing.
enPass_missing(d, showFR) == d

\* en.forEach(el => el.style.display = showFR ? 'none' : '')
enPass(d, showFR) ==
    [e \in Elems |-> IF e \in all("lang-en")
                     THEN (IF showFR THEN "none" ELSE "")
                     ELSE d[e]]

\* showFR ? 'fr' : 'en'
langCode(showFR) == IF showFR THEN "fr" ELSE "en"

\* Variant: no catch around setItem.
tryWrite_noCatch(st, value, writeOk) ==
    IF writeOk THEN [storage |-> value, thrown |-> FALSE]
               ELSE [storage |-> st, thrown |-> TRUE]

\* Variant: setItem is never reached.
tryWrite_noWrite(st, value, writeOk) == [storage |-> st, thrown |-> FALSE]

\* Variant: the catch removes the key.
tryWrite_clearOnError(st, value, writeOk) ==
    IF writeOk THEN [storage |-> value, thrown |-> FALSE]
               ELSE [storage |-> NoItem, thrown |-> FALSE]

\* try { localStorage.setItem('portfolio_lang', value) } catch { /* ignore */ }
\* writeOk is FALSE when setItem (or the localStorage getter) throws.
tryWrite(st, value, writeOk) ==
    IF writeOk THEN [storage |-> value, thrown |-> FALSE]
               ELSE [storage |-> st, thrown |-> FALSE]

\* setLang(next) on displays d and stored value st
setLang(d, st, next, writeOk) ==
    LET showFR == next = "fr"
        d1 == frPass(d, showFR)
        d2 == enPass(d1, showFR)
        w  == tryWrite(st, langCode(showFR), writeOk)
    IN  [display  |-> d2,
         lang     |-> langCode(showFR),
         storage  |-> w.storage,
         uncaught |-> w.thrown]

\* Variant: the catch falls back to French.
readSaved_frenchOnError(st, readOk) == IF readOk THEN st ELSE "fr"

\* var saved = 'en'; try { saved = localStorage.getItem(...) } catch { saved = 'en' }
readSaved(st, readOk) == IF readOk THEN st ELSE "en"

\* saved === 'fr' ? 'fr' : 'en'
resolve(saved) == IF saved = "fr" THEN "fr" ELSE "en"

\* Variant: anything that is not 'en' counts as French.
current_unknownIsFrench(l) == IF l = "en" THEN "en" ELSE "fr"

\* document.documentElement.lang === 'fr' ? 'fr' : 'en'
current(l) == IF l = "fr" THEN "fr" ELSE "en"

\* Variant: the toggle always switches to French.
opposite_alwaysFrench(cur) == "fr"

\* current === 'fr' ? 'en' : 'fr'
opposite(cur) == IF cur = "fr" THEN "en" ELSE "fr"

\* Variant: only 'year' is stamped.
stampYear_firstOnly(t, ids, y) ==
    [id \in YearIds |-> IF id \in ids /\ id = "year" THEN y ELSE t[id]]

\* if (year) year.textContent = y; if (yearFr) yearFr.textContent = y;
stampYear(t, ids, y) == [id \in YearIds |-> IF id \in ids THEN y ELSE t[id]]

----------------------------------------------------------------------------
(* Observation *)

\* An element is shown unless its inline display is 'none'.
Visible == {e \in Elems : display[e] # "none"}

\* h.op          the last step: "init", "toggle", "storage", "attr", "reload"
\* h.applied     the argument of the setLang call of the last step
\* h.wrote       that call's setItem returned (did not throw)
\* h.readOk      init's getItem returned (did not throw)
\* h.saved       init's local 'saved' after the try/catch
\* h.year        the year the clock gave init
\* h.preLang     the lang attribute before the last step
\* h.kept        the last step left the stored value as it was
\* h.toggles     how many toggleLanguage calls ran in a row (2: two or more)
\* h.prev1       Visible before the last toggleLanguage call
\* h.prev2       Visible before the one before it
\* h.langBefore  the lang attribute when the page was left (set by Reload)
\* h.synced      the last setLang wrote, and nothing else has written since
\* h.restore     the language a reload had to restore (None: nothing to restore)
H0 == [op |-> "none", applied |-> None, wrote |-> FALSE, readOk |-> FALSE,
       saved |-> None, year |-> 0, preLang |-> None, kept |-> TRUE,
       toggles |-> 0, prev1 |-> {}, prev2 |-> {},
       langBefore |-> None, synced |-> FALSE, restore |-> None]

----------------------------------------------------------------------------
(* Actions *)

\* function init() { ... }
init ==
    \E y \in Years, readOk \in BOOLEAN, writeOk \in BOOLEAN :
       LET saved == readSaved(storage, readOk)
           r == setLang(display, storage, resolve(saved), writeOk)
       IN  /\ text' = stampYear(text, page.ids, String(y))
           /\ display' = r.display
           /\ lang' = r.lang
           /\ storage' = r.storage
           /\ uncaught' = r.uncaught
           /\ pc' = "ready"
           /\ h' = [H0 EXCEPT !.op = "init", !.applied = resolve(saved),
                              !.wrote = writeOk, !.readOk = readOk,
                              !.saved = saved, !.year = y,
                              !.preLang = lang,
                              !.kept = (r.storage = storage),
                              !.synced = writeOk,
                              !.restore = IF h.synced THEN h.langBefore ELSE None]
           /\ UNCHANGED page

\* Variant: init also runs again on a page that is already set up.
ScriptLoad_again == init

\* init();  -- the last statement of the script, run once per page load
ScriptLoad == pc = "load" /\ init

\* window.toggleLanguage(), run by a click once the script has loaded
toggleLanguage ==
    /\ pc = "ready"
    /\ \E writeOk \in BOOLEAN :
         LET next == opposite(current(lang))
             r == setLang(display, storage, next, writeOk)
         IN  /\ display' = r.display
             /\ lang' = r.lang
             /\ storage' = r.storage
             /\ uncaught' = r.uncaught
             /\ h' = [H0 EXCEPT !.op = "toggle", !.applied = next,
                                !.wrote = writeOk,
                                !.preLang = lang,
                                !.kept = (r.storage = storage),
                                !.toggles = IF h.op = "toggle" THEN 2 ELSE 1,
                                !.prev1 = Visible,
                                !.prev2 = IF h.op = "toggle" THEN h.prev1 ELSE {},
                                !.synced = writeOk]
    /\ UNCHANGED <<page, pc, text>>

\* The stored value changes from outside the page (another tab, the user
\* clearing site data).  The script registers no listener for it.
StorageChanged ==
    /\ \E v \in StoredValues \ {storage} : storage' = v
    /\ h' = [H0 EXCEPT !.op = "storage"]
    /\ UNCHANGED <<page, pc, display, lang, text, uncaught>>

\* The page is loaded again: the document is the authored one, the script
\* has not run yet, localStorage survives.
Reload ==
    /\ pc = "ready"
    /\ pc' = "load"
    /\ display' = page.display
    /\ lang' = page.lang
    /\ text' = [id \in YearIds |-> <<>>]
    /\ uncaught' = FALSE
    /\ h' = [H0 EXCEPT !.op = "reload", !.langBefore = lang, !.synced = h.synced]
    /\ UNCHANGED <<page, storage>>

\* The lang attribute of the root element is changed by something other than
\* this script (page translation, another script) while the page is open.
LangAttrChanged ==
    /\ pc = "ready"
    /\ \E v \in LangAttrs \ {lang} : lang' = v
    /\ h' = [H0 EXCEPT !.op = "attr"]
    /\ UNCHANGED <<page, pc, display, text, storage, uncaught>>

Init ==
    /\ page \in Pages
    /\ pc = "load"
    /\ display = page.display
    /\ lang = page.lang
    /\ text = [id \in YearIds |-> <<>>]
    /\ storage \in StoredValues
    /\ uncaught = FALSE
    /\ h = H0

Next == ScriptLoad \/ toggleLanguage \/ StorageChanged \/ Reload

\* The page with nothing but this script touching the document.
Spec == Init /\ [][Next]_vars

NextAttr == Next \/ LangAttrChanged

\* The page with the lang attribute also written from outside the script.
SpecAttr == Init /\ [][NextAttr]_vars

----------------------------------------------------------------------------
(* Vocabulary of the properties *)

ClassOf(v) == IF v = "fr" THEN "lang-fr" ELSE "lang-en"
Other(v) == IF v = "fr" THEN "en" ELSE "fr"

\* the elements tagged for language v, and those tagged for v alone
TaggedFor(v) == all(ClassOf(v))
OnlyFor(v) == TaggedFor(v) \ TaggedFor(Other(v))
Both == TaggedFor("fr") \cap TaggedFor("en")
Tagged == TaggedFor("fr") \cup TaggedFor("en")

\* the last step called setLang
Applied == h.op \in {"init", "toggle"}

\* Of the tagged elements, exactly those tagged for v are visible.
ExactlyTaggedShown(v) == \A e \in Tagged : e \in Visible <=> e \in TaggedFor(v)

\* Elements with one tag are visible exactly when the tag is v's; an element
\* with both tags is visible exactly when v is English.
ShownAs(v) ==
    /\ OnlyFor(v) \subseteq Visible
    /\ OnlyFor(Other(v)) \cap Visible = {}
    /\ \A e \in Both : e \in Visible <=> v = "en"

\* the number a sequence of decimal digits denotes
RECURSIVE Value(_)
Value(ds) ==
    IF ds = <<>> THEN 0
    ELSE 10 * Value(SubSeq(ds, 1, Len(ds) - 1)) + ds[Len(ds)]

IsNumeral(ds) == Len(ds) > 0 /\ \A i \in 1..Len(ds) : ds[i] \in 0..9

----------------------------------------------------------------------------
(* C1 *)

\* C1 as stated: after setLang(v), of the tagged elements exactly those tagged
\* for v are visible, whatever the tags are.
C1_ExactlyTaggedForV == Applied => ExactlyTaggedShown(h.applied)

\* C1 (amended): after setLang(v), an element with one of the two tags is
\* visible exactly when it is tagged for v, and an element with both tags is
\* visible exactly when v is English (the English pass runs last).
C1_SetLangShows == Applied => ShownAs(h.applied)

\* setLang('en') ran on a page that authored its French element visible and its
\* English element hidden, and that also has an element with both tags.
C1_Witness ==
    /\ Applied /\ h.applied = "en"
    /\ \E e \in OnlyFor("fr") : page.display[e] = "" /\ e \notin Visible
    /\ \E e \in Both : e \in Visible

(* C2 *)

\* C2 as stated: once init has run the lang attribute is 'en' or 'fr' and
\* every element tagged for the other language is hidden.
C2_OtherLanguageHidden ==
    pc = "ready" =>
        /\ lang \in {"en", "fr"}
        /\ TaggedFor(Other(lang)) \cap Visible = {}

\* C2 (amended): once init has run the lang attribute is 'en' or 'fr' and
\* every element tagged for the other language and not for the active one is
\* hidden, whether or not storage reads and writes fail.
C2_OneLanguageActive ==
    pc = "ready" =>
        /\ lang \in {"en", "fr"}
        /\ OnlyFor(Other(lang)) \cap Visible = {}

\* French is active after a toggle whose write failed, on a page that authored
\* its English element visible.
C2_Witness ==
    /\ pc = "ready" /\ h.op = "toggle" /\ ~h.wrote /\ lang = "fr"
    /\ \E e \in OnlyFor("en") : page.display[e] = "" /\ e \notin Visible

(* C3 *)

\* C3: after two toggleLanguage calls in a row the set of visible elements is
\* the one before the two calls.
C3_ToggleTwiceRestores == (h.op = "toggle" /\ h.toggles = 2) => Visible = h.prev2

\* Two toggles in a row, the first of which changed what is visible.
C3_Witness ==
    /\ h.op = "toggle" /\ h.toggles = 2
    /\ h.prev1 # h.prev2
    /\ Visible # {} /\ Visible # Elems

(* C4 *)

\* C4 as stated: if init's read throws or gives anything but 'fr', then after
\* init the English elements are visible, the French elements are hidden and
\* the lang attribute is 'en'.
C4_EnglishFrenchHidden ==
    (h.op = "init" /\ ~(h.readOk /\ h.saved = "fr")) =>
        /\ lang = "en"
        /\ TaggedFor("en") \subseteq Visible
        /\ TaggedFor("fr") \cap Visible = {}

\* C4 (amended): if init's read throws or gives anything but 'fr', then after
\* init the English elements are visible, the elements tagged French and not
\* English are hidden and the lang attribute is 'en'.
C4_DefaultsToEnglish ==
    (h.op = "init" /\ ~(h.readOk /\ h.saved = "fr")) =>
        /\ lang = "en"
        /\ TaggedFor("en") \subseteq Visible
        /\ OnlyFor("fr") \cap Visible = {}

\* init's read threw while 'fr' was stored, on a page authored in French with
\* its French element visible.
C4_Witness ==
    /\ h.op = "init" /\ ~h.readOk /\ storage = "fr"
    /\ page.lang = "fr" /\ lang = "en"
    /\ \E e \in OnlyFor("fr") : page.display[e] = "" /\ e \notin Visible

(* C5 *)

\* C5: when setItem throws, setLang(v) has still set the display of the tagged
\* elements and the lang attribute for v, and no exception leaves it.
C5_WriteFailureIgnored ==
    (Applied /\ ~h.wrote) =>
        /\ lang = h.applied
        /\ ShownAs(h.applied)
        /\ ~uncaught

\* A toggle to French whose write threw: the page changed, the stored value
\* did not.
C5_Witness ==
    /\ h.op = "toggle" /\ ~h.wrote /\ h.applied = "fr"
    /\ storage = "en" /\ lang = "fr"
    /\ Visible # h.prev1

(* C6 *)

\* C6 as stated: with reads and writes succeeding, init after a reload makes
\* active the language that was active before it; and a stored 'fr' gives the
\* French elements visible, the English ones hidden and the attribute 'fr'.
C6_RestoredExactly ==
    /\ (h.op = "init" /\ h.readOk /\ h.restore # None) =>
           lang = h.restore /\ ShownAs(h.restore)
    /\ (h.op = "init" /\ h.readOk /\ h.saved = "fr") =>
           /\ lang = "fr"
           /\ TaggedFor("fr") \subseteq Visible
           /\ TaggedFor("en") \cap Visible = {}

\* C6 (amended): with reads and writes succeeding, init after a reload makes
\* active the language that was active before it; and a stored 'fr' gives the
\* elements tagged French and not English visible, the English ones hidden and
\* the attribute 'fr'.
C6_PersistedAndRestored ==
    /\ (h.op = "init" /\ h.readOk /\ h.restore # None) =>
           lang = h.restore /\ ShownAs(h.restore)
    /\ (h.op = "init" /\ h.readOk /\ h.saved = "fr") =>
           /\ lang = "fr"
           /\ OnlyFor("fr") \subseteq Visible
           /\ TaggedFor("en") \cap Visible = {}

\* French was active and stored when an English-authored page was reloaded,
\* and init brought French back.
C6_Witness ==
    /\ h.op = "init" /\ h.readOk /\ h.restore = "fr" /\ h.saved = "fr"
    /\ page.lang = "en" /\ lang = "fr"
    /\ \E e \in OnlyFor("fr") : page.display[e] = "none" /\ e \in Visible

(* C7 *)

\* C7 as stated: toggleLanguage on attribute 'fr' leaves the attribute 'en' and
\* English active; on any other attribute it leaves 'fr' and French active
\* (active: its elements visible, the other language's hidden).
C7_ToggleActivatesOpposite ==
    h.op = "toggle" =>
        LET v == IF h.preLang = "fr" THEN "en" ELSE "fr"
        IN  /\ lang = v
            /\ TaggedFor(v) \subseteq Visible
            /\ TaggedFor(Other(v)) \cap Visible = {}

\* C7 (amended): toggleLanguage on attribute 'fr' leaves the attribute 'en',
\* on any other attribute 'fr'; the elements tagged for that language alone are
\* visible, those tagged for the other alone are hidden, and an element with
\* both tags is visible exactly when the result is English.
C7_ToggleAppliesOpposite ==
    h.op = "toggle" =>
        LET v == IF h.preLang = "fr" THEN "en" ELSE "fr"
        IN  lang = v /\ h.applied = v /\ ShownAs(v)

\* toggleLanguage ran on an attribute that is neither 'en' nor 'fr'.
C7_Witness ==
    /\ h.op = "toggle" /\ h.preLang = "fr-CA" /\ lang = "fr"
    /\ OnlyFor("fr") # {} /\ OnlyFor("en") # {}

(* C8 *)

\* C8: between init and the end of the page session, the lang attribute and
\* the displays change only in a toggleLanguage step.
C8_OnlyToggleChanges ==
    [][(pc = "ready" /\ pc' = "ready" /\ (lang' # lang \/ display' # display))
          => h'.op = "toggle"]_vars

\* The stored value was changed to 'fr' from outside while English stayed
\* active on the open page.
C8_Witness ==
    /\ pc = "ready" /\ h.op = "storage" /\ storage = "fr" /\ lang = "en"
    /\ OnlyFor("fr") # {} /\ OnlyFor("fr") \cap Visible = {}

(* C9 *)

\* C9: after init each of 'year', 'year-fr' that is present holds the year as
\* a decimal numeral, an absent one is skipped and nothing is thrown, whether
\* or not the storage read succeeded.
C9_YearStamped ==
    h.op = "init" =>
        /\ \A id \in page.ids : IsNumeral(text[id]) /\ Value(text[id]) = h.year
        /\ \A id \in YearIds \ page.ids : text[id] = <<>>
        /\ ~uncaught

\* init ran with 'year-fr' present, 'year' absent and the storage read failing.
C9_Witness ==
    /\ h.op = "init" /\ ~h.readOk
    /\ page.ids = {"year-fr"} /\ text["year-fr"] = <<2, 0, 2, 7>>

(* C10 *)

\* C10: after a setLang whose write succeeded the stored value is 'en' or 'fr'
\* and equals the lang attribute (so init replaces an absent or invalid value
\* by 'en'); after one whose write failed the stored value is what it was.
C10_StoredValue ==
    Applied =>
        /\ h.wrote => (storage \in {"en", "fr"} /\ storage = lang)
        /\ ~h.wrote => h.kept
        /\ (h.op = "init" /\ h.wrote /\ h.readOk /\ h.saved \notin {"en", "fr"})
               => storage = "en"

\* init read an absent key and stored 'en'.
C10_Witness ==
    /\ h.op = "init" /\ h.wrote /\ h.readOk /\ h.saved = NoItem
    /\ storage = "en" /\ ~h.kept

====
